---- MODULE Spec2Model ----
(***************************************************************************)
(* Host <-> guest task handoff of gevulot-shim.                            *)
(*                                                                         *)
(*   src/src/lib.rs                 guest runtime: mount_present, run,     *)
(*                                  Task, TaskResult                       *)
(*   src/src/bin/shim-executor.rs   host orchestrator: main, pre_check,    *)
(*                                  run_qemu                               *)
(*                                                                         *)
(* Strings are sequences of one-character strings, files are records       *)
(* [exists, data] whose data is the file's text, and the JSON text that    *)
(* serde_json writes and reads is modelled character by character.         *)
(*                                                                         *)
(*   Spec       the host's main from its start, with the VM and the guest  *)
(*   GuestSpec  the guest's run alone, in a workspace that holds anything  *)
(*   FairSpec   Spec, with every process taking its steps                  *)
(*   PathSpec   one call of Task::get_task_files_path, on any arguments    *)
(*                                                                         *)
(* Time is the guest's beginning.elapsed() in seconds; it advances by the  *)
(* sleep of the wait loop only.  The strings of the model hold no          *)
(* character that JSON escapes other than the quote and the backslash.     *)
(***************************************************************************)
EXTENDS Integers, Sequences, FiniteSets, TLC

(***************************************************************************)
(* Program constants.                                                      *)
(***************************************************************************)
\* lib.rs:10  const MOUNT_TIMEOUT: Duration = Duration::from_secs(30)
MOUNT_TIMEOUT == 30

\* lib.rs:85  sleep(Duration::from_secs(1))
POLL_INTERVAL == 1

\* lib.rs:15  pub const WORKSPACE_PATH: &str = "/workspace"
WORKSPACE_PATH == <<"/", "w", "o", "r", "k", "s", "p", "a", "c", "e">>

\* largest value of a u8 (TaskResult.data is Vec<u8>, lib.rs:30)
U8_MAX == 255

(***************************************************************************)
(* Bounds of the model.                                                    *)
(***************************************************************************)
\* longest error message a callback returns
MaxMsgLen == 2

\* longest data payload a callback returns
MaxDataLen == 1

\* most file names a Task lists when its paths are resolved
MaxFiles == 2

(***************************************************************************)
(* Sequences helpers.                                                      *)
(***************************************************************************)
\* all sequences over S of length at most n
SeqsUpTo(S, n) == UNION {[1..k -> S] : k \in 0..n}

\* whether txt holds lit starting at position i
HasAt(txt, i, lit) ==
    /\ i >= 1
    /\ i + Len(lit) - 1 <= Len(txt)
    /\ SubSeq(txt, i, i + Len(lit) - 1) = lit

\* str::contains: pat occurs somewhere in line
Contains(line, pat) == \E i \in 1..(Len(line) + 1) : HasAt(line, i, pat)

(***************************************************************************)
(* serde_json, writing.  Compact output, fields in declaration order,      *)
(* a quote or a backslash inside a string escaped with a backslash.        *)
(***************************************************************************)
QUOTE == "\""
BSLASH == "\\"

RECURSIVE EscapeStr(_)
EscapeStr(s) ==
    IF s = <<>> THEN <<>>
    ELSE (IF Head(s) \in {QUOTE, BSLASH} THEN <<BSLASH, Head(s)>> ELSE <<Head(s)>>)
         \o EscapeStr(Tail(s))

EncString(s) == <<QUOTE>> \o EscapeStr(s) \o <<QUOTE>>

DigitChar == <<"0", "1", "2", "3", "4", "5", "6", "7", "8", "9">>

RECURSIVE EncNumber(_)
EncNumber(n) ==
    IF n < 10 THEN <<DigitChar[n + 1]>>
    ELSE EncNumber(n \div 10) \o <<DigitChar[(n % 10) + 1]>>

RECURSIVE EncStrItems(_)
EncStrItems(l) ==
    IF l = <<>> THEN <<>>
    ELSE IF Len(l) = 1 THEN EncString(l[1])
    ELSE EncString(Head(l)) \o <<",">> \o EncStrItems(Tail(l))

EncStrList(l) == <<"[">> \o EncStrItems(l) \o <<"]">>

RECURSIVE EncByteItems(_)
EncByteItems(d) ==
    IF d = <<>> THEN <<>>
    ELSE IF Len(d) = 1 THEN EncNumber(d[1])
    ELSE EncNumber(Head(d)) \o <<",">> \o EncByteItems(Tail(d))

EncBytes(d) == <<"[">> \o EncByteItems(d) \o <<"]">>

\* "name":
Key(name) == <<QUOTE>> \o name \o <<QUOTE, ":">>

K_id == Key(<<"i", "d">>)
K_args == Key(<<"a", "r", "g", "s">>)
K_files == Key(<<"f", "i", "l", "e", "s">>)
K_data == Key(<<"d", "a", "t", "a">>)
K_Ok == Key(<<"O", "k">>)
K_Err == Key(<<"E", "r", "r">>)

\* #[derive(Serialize)] struct Task { id, args, files }
EncTask(t) ==
    <<"{">> \o K_id \o EncString(t.id)
            \o <<",">> \o K_args \o EncStrList(t.args)
            \o <<",">> \o K_files \o EncStrList(t.files) \o <<"}">>

\* #[derive(Serialize)] struct TaskResult { id, data, files }
EncTaskResult(r) ==
    <<"{">> \o K_id \o EncString(r.id)
            \o <<",">> \o K_data \o EncBytes(r.data)
            \o <<",">> \o K_files \o EncStrList(r.files) \o <<"}">>

(***************************************************************************)
(* The result envelope, std::result::Result<TaskResult, String>:           *)
(* [tag |-> "Ok", val |-> a TaskResult] or [tag |-> "Err", msg |-> text].  *)
(***************************************************************************)
NoTaskResult == [id |-> <<>>, data |-> <<>>, files |-> <<>>]
OkEnv(r) == [tag |-> "Ok", val |-> r, msg |-> <<>>]
ErrEnv(m) == [tag |-> "Err", val |-> NoTaskResult, msg |-> m]
NoEnv == [tag |-> "None", val |-> NoTaskResult, msg |-> <<>>]

\* serde's externally tagged enum: {"Ok":...} or {"Err":"..."}
EncEnvelope(e) ==
    IF e.tag = "Ok"
    THEN <<"{">> \o K_Ok \o EncTaskResult(e.val) \o <<"}">>
    ELSE <<"{">> \o K_Err \o EncString(e.msg) \o <<"}">>

(***************************************************************************)
(* serde_json, reading.  Each parser takes the text and a position and     *)
(* returns [ok, val, nxt]: whether a value was read, the value, and the    *)
(* position after it.  The grammar is the compact form serde_json writes   *)
(* (no white space, fields in declaration order, the escapes \" and \\).   *)
(***************************************************************************)
\* body(v) for the value v of an expression, which is evaluated once
With(v, body(_)) == CHOOSE r \in {body(x) : x \in {v}} : TRUE

PFail == [ok |-> FALSE, val |-> <<>>, nxt |-> 0]
POk(v, n) == [ok |-> TRUE, val |-> v, nxt |-> n]

RECURSIVE PStrBody(_, _, _)
PStrBody(txt, i, acc) ==
    IF i > Len(txt) THEN PFail
    ELSE IF txt[i] = QUOTE THEN POk(acc, i + 1)
    ELSE IF txt[i] = BSLASH
         THEN IF i + 1 <= Len(txt) /\ txt[i + 1] \in {QUOTE, BSLASH}
              THEN PStrBody(txt, i + 2, Append(acc, txt[i + 1]))
              ELSE PFail
    ELSE PStrBody(txt, i + 1, Append(acc, txt[i]))

PString(txt, i) ==
    IF HasAt(txt, i, <<QUOTE>>) THEN PStrBody(txt, i + 1, <<>>) ELSE PFail

RECURSIVE PStrItems(_, _, _)
PStrItems(txt, i, acc) ==
    With(PString(txt, i), LAMBDA s :
        IF ~s.ok THEN PFail
        ELSE IF HasAt(txt, s.nxt, <<",">>)
             THEN PStrItems(txt, s.nxt + 1, Append(acc, s.val))
        ELSE IF HasAt(txt, s.nxt, <<"]">>)
             THEN POk(Append(acc, s.val), s.nxt + 1)
        ELSE PFail)

PStrList(txt, i) ==
    IF ~HasAt(txt, i, <<"[">>) THEN PFail
    ELSE IF HasAt(txt, i + 1, <<"]">>) THEN POk(<<>>, i + 2)
    ELSE PStrItems(txt, i + 1, <<>>)

IsDigit(c) == \E k \in 1..10 : DigitChar[k] = c
DigitVal(c) == (CHOOSE k \in 1..10 : DigitChar[k] = c) - 1

\* the digits of a u8: no leading zero, no value above U8_MAX
RECURSIVE PDigits(_, _, _, _)
PDigits(txt, i, acc, n) ==
    IF i <= Len(txt) /\ IsDigit(txt[i])
    THEN IF (n >= 1 /\ acc = 0) \/ acc * 10 + DigitVal(txt[i]) > U8_MAX
         THEN PFail
         ELSE PDigits(txt, i + 1, acc * 10 + DigitVal(txt[i]), n + 1)
    ELSE IF n = 0 THEN PFail ELSE POk(acc, i)

PNumber(txt, i) == PDigits(txt, i, 0, 0)

RECURSIVE PByteItems(_, _, _)
PByteItems(txt, i, acc) ==
    With(PNumber(txt, i), LAMBDA b :
        IF ~b.ok THEN PFail
        ELSE IF HasAt(txt, b.nxt, <<",">>)
             THEN PByteItems(txt, b.nxt + 1, Append(acc, b.val))
        ELSE IF HasAt(txt, b.nxt, <<"]">>)
             THEN POk(Append(acc, b.val), b.nxt + 1)
        ELSE PFail)

PBytes(txt, i) ==
    IF ~HasAt(txt, i, <<"[">>) THEN PFail
    ELSE IF HasAt(txt, i + 1, <<"]">>) THEN POk(<<>>, i + 2)
    ELSE PByteItems(txt, i + 1, <<>>)

\* a value after a fixed text: the parser p applied behind lit, at position i
After(txt, i, lit, p(_, _)) ==
    IF HasAt(txt, i, lit) THEN p(txt, i + Len(lit)) ELSE PFail

\* #[derive(Deserialize)] struct Task, at position i
PTask(txt, i) ==
    With(After(txt, i, <<"{">> \o K_id, PString), LAMBDA a :
    IF ~a.ok THEN PFail ELSE
    With(After(txt, a.nxt, <<",">> \o K_args, PStrList), LAMBDA b :
    IF ~b.ok THEN PFail ELSE
    With(After(txt, b.nxt, <<",">> \o K_files, PStrList), LAMBDA c :
    IF c.ok /\ HasAt(txt, c.nxt, <<"}">>)
    THEN POk([id |-> a.val, args |-> b.val, files |-> c.val], c.nxt + 1)
    ELSE PFail)))

\* #[derive(Deserialize)] struct TaskResult, at position i
PTaskResult(txt, i) ==
    With(After(txt, i, <<"{">> \o K_id, PString), LAMBDA a :
    IF ~a.ok THEN PFail ELSE
    With(After(txt, a.nxt, <<",">> \o K_data, PBytes), LAMBDA b :
    IF ~b.ok THEN PFail ELSE
    With(After(txt, b.nxt, <<",">> \o K_files, PStrList), LAMBDA c :
    IF c.ok /\ HasAt(txt, c.nxt, <<"}">>)
    THEN POk([id |-> a.val, data |-> b.val, files |-> c.val], c.nxt + 1)
    ELSE PFail)))

\* serde_json::from_reader::<Task>: a Task, then the end of the input
DecTask(txt) ==
    With(PTask(txt, 1), LAMBDA t :
        IF t.ok /\ t.nxt = Len(txt) + 1 THEN t ELSE PFail)

\* serde_json::from_reader::<Result<TaskResult, String>>: {"Ok":...} or
\* {"Err":"..."}, then the end of the input
DecEnvelope(txt) ==
    With(After(txt, 1, <<"{">> \o K_Ok, PTaskResult), LAMBDA r :
    With(After(txt, 1, <<"{">> \o K_Err, PString), LAMBDA m :
        IF r.ok /\ HasAt(txt, r.nxt, <<"}">>) /\ r.nxt = Len(txt)
        THEN POk(OkEnv(r.val), r.nxt + 1)
        ELSE IF m.ok /\ HasAt(txt, m.nxt, <<"}">>) /\ m.nxt = Len(txt)
        THEN POk(ErrEnv(m.val), m.nxt + 1)
        ELSE PFail))

(***************************************************************************)
(* Inputs of the model.                                                    *)
(***************************************************************************)
NoFile == [exists |-> FALSE, data |-> <<>>]
FileOf(txt) == [exists |-> TRUE, data |-> txt]

NoTask == [id |-> <<>>, args |-> <<>>, files |-> <<>>]

\* the command lines the host is started with (Config.task_id, args, file;
\* shim-executor.rs:10-42); the first is the default task id "task01"
Configs ==
    { [task_id |-> <<"t", "a", "s", "k", "0", "1">>,
       args |-> << <<"-", "-", "x">> >>, file |-> <<>>],
      [task_id |-> <<"a", QUOTE>>,
       args |-> <<>>, file |-> << <<"a", ".", "t">>, <<BSLASH>> >>] }

NoConfig == [task_id |-> <<>>, args |-> <<>>, file |-> <<>>]

\* a Task the callback may build a result from instead of the one it was given
OtherTask == [id |-> <<"o">>, args |-> <<>>, files |-> <<>>]

\* what the operator types at the prompt, as read_line returns it: the line
\* with its terminator, or nothing at the end of the input
Answers ==
    { <<"y", "e", "s", "\n">>, <<"y", "e", "s", "\r", "\n">>, <<"y", "e", "s">>,
      <<"n", "o", "\n">>, <<"y", "\n">>, <<"y", "e", "s", " ", "\n">>,
      <<"\n">>, <<>> }

\* a task_result.json left by an earlier run
StaleResult == FileOf(EncEnvelope(ErrEnv(<<"o", "l", "d">>)))

\* a task.json left by an earlier run
StaleTask == FileOf(EncTask(OtherTask))

MsgChars == {"b", QUOTE, BSLASH}
Messages == SeqsUpTo(MsgChars, MaxMsgLen) \cup {<<"b", "o", "o", "m">>}

Bytes == {0, 7, U8_MAX}
Datas == SeqsUpTo(Bytes, MaxDataLen) \cup {<<1, 2, 3>>}

ResultFiles == {<<>>, << <<"o", ".", "b">> >>}

\* lines of /proc/mounts
ProcLine == <<"p", "r", "o", "c", " ", "/", "p", "r", "o", "c">>
WsLine == <<"0", " ">> \o WORKSPACE_PATH \o <<" ", "9", "p">>
LooseLine == <<"0", " ">> \o WORKSPACE_PATH \o <<"2", " ", "9", "p">>

Tables == { <<ProcLine>>, <<WsLine, ProcLine>>, <<ProcLine, LooseLine>> }

\* the exit statuses the VM launcher reports
ExitStatuses == {0, 1}
NoStatus == 0 - 1

(***************************************************************************)
(* State.                                                                  *)
(***************************************************************************)
VARIABLES
    config,       \* host: the parsed command line (Config)
    wsExists,     \* whether the workspace directory exists
    taskFile,     \* <workspace>/task.json
    resultFile,   \* <workspace>/task_result.json
    hpc,          \* host: where main is
    answer,       \* host: pre_check's answer buffer, as read_line filled it
    hostOutcome,  \* host: what run_qemu or pre_check returned
    vm,           \* the VM launcher's process: none, running, exited
    exitStatus,   \* the status cmd.status() returned
    mounts,       \* guest: the lines of /proc/mounts
    elapsed,      \* guest: beginning.elapsed(), in seconds
    mountedAt,    \* elapsed when /proc/mounts first held the mount point, or -1
    gpc,          \* guest: where run is
    gerr,         \* guest: why run failed or panicked
    task,         \* guest: the Task read from task.json
    cbCall,       \* guest: the Task::result call the callback made, if any
    result,       \* guest: callback(task).map_err(|e| e.to_string())
    pcall         \* a call of Task::get_task_files_path and what it returned

vars == <<config, wsExists, taskFile, resultFile, hpc, answer, hostOutcome, vm,
          exitStatus, mounts, elapsed, mountedAt, gpc, gerr, task, cbCall, result,
          pcall>>

guestVars == <<mounts, elapsed, mountedAt, gpc, gerr, task, cbCall, result>>

\* run_qemu's or pre_check's return value.  An error is a Box<dyn Error>:
\* class is the type behind it (io::Error, serde_json::Error or the String
\* a callback failure was turned into), msg what it displays.
NoErr == [class |-> "none", msg |-> <<>>]
IoErr(what) == [class |-> "io", msg |-> what]
SerdeErr(what) == [class |-> "serde", msg |-> what]
StringErr(m) == [class |-> "string", msg |-> m]

NoOutcome == [tag |-> "None", val |-> NoTaskResult, err |-> NoErr]
OkOutcome(r) == [tag |-> "Ok", val |-> r, err |-> NoErr]
ErrOutcome(e) == [tag |-> "Err", val |-> NoTaskResult, err |-> e]

\* the texts the io and serde errors display (stand-ins for the OS's and
\* serde_json's wording)
T_NotFound == <<"E", "N", "O", "E", "N", "T">>
T_Io == <<"E", "I", "O">>
T_Syntax == <<"s", "y", "n", "t", "a", "x">>

HostTerminal == {"exit0", "exit1", "panic_preflight", "panic_qemu"}
GuestTerminal == {"done", "failed", "panicked", "killed"}

(***************************************************************************)
(* Host: pre_check (shim-executor.rs:50-77) and main's expect (line 46).   *)
(***************************************************************************)
\* answer.lines().next(): the text before the first line terminator (\n, or
\* \r\n); nothing when the buffer is empty
RECURSIVE UpToNewline(_)
UpToNewline(s) ==
    IF s = <<>> \/ Head(s) = "\n" THEN <<>>
    ELSE IF Head(s) = "\r" /\ Len(s) >= 2 /\ s[2] = "\n" THEN <<>>
    ELSE <<Head(s)>> \o UpToNewline(Tail(s))

FirstLine(raw) ==
    IF raw = <<>> THEN [some |-> FALSE, line |-> <<>>]
    ELSE [some |-> TRUE, line |-> UpToNewline(raw)]

\* IsYes with a fault: anything but no goes on
IsNotNo(line) == line # <<"n", "o">>

\* line 69: the answer that lets pre_check go on
IsYes(line) == line = <<"y", "e", "s">>

\* lines 52-67: the workspace and stale-result tests, the prompt and
\* read_line.  raw is what the operator types; ioOk is FALSE when writing the
\* prompt or reading the line fails (main's expect, line 46, then panics).
PreCheckAsk ==
    /\ hpc = "pre_check"
    /\ \E raw \in Answers, ioOk \in BOOLEAN :
         /\ hpc' = IF ~wsExists THEN "exit1"                  \* line 57
                   ELSE IF ~resultFile.exists THEN "run_qemu" \* line 76
                   ELSE IF ~ioOk THEN "panic_preflight"              \* lines 64-67
                   ELSE "answered"
         /\ answer' = IF hpc' = "answered" THEN raw ELSE answer
         /\ hostOutcome' = IF hpc' = "panic_preflight" THEN ErrOutcome(IoErr(T_Io))
                           ELSE hostOutcome
    /\ UNCHANGED <<config, wsExists, taskFile, resultFile, vm, exitStatus>>
    /\ UNCHANGED guestVars
    /\ UNCHANGED pcall

\* RemoveFile with a fault: the stale file left in place
RemoveFileSkipped(file) == file

\* line 73: fs::remove_file(&result_file)
RemoveFile(file) == NoFile

\* lines 68-76: the answer is tested and the stale file removed; the answer
\* buffer is dropped when pre_check returns.  removeOk is FALSE when
\* remove_file fails.
PreCheckDecide ==
    /\ hpc = "answered"
    /\ \E removeOk \in BOOLEAN :
         LET got == FirstLine(answer) IN
         /\ hpc' = IF ~got.some THEN "panic_preflight"               \* line 68
                   ELSE IF ~IsYes(got.line) THEN "exit1"      \* line 71
                   ELSE IF ~removeOk THEN "panic_preflight"          \* lines 73, 46
                   ELSE "run_qemu"
         /\ resultFile' = IF hpc' = "run_qemu" THEN RemoveFile(resultFile)
                          ELSE resultFile
         /\ answer' = IF hpc' = "run_qemu" THEN <<>> ELSE answer
         /\ hostOutcome' = IF hpc' = "panic_preflight" /\ got.some
                           THEN ErrOutcome(IoErr(T_Io)) ELSE hostOutcome
    /\ UNCHANGED <<config, wsExists, taskFile, vm, exitStatus>>
    /\ UNCHANGED guestVars
    /\ UNCHANGED pcall

(***************************************************************************)
(* Host: run_qemu (shim-executor.rs:79-156) and main's expect (line 47).   *)
(***************************************************************************)
\* HostTask with a fault: args and files taken from each other's parameter
HostTaskSwapped(c) == [id |-> c.task_id, args |-> c.file, files |-> c.args]

\* lines 81-85: the Task the host builds from its parameters
HostTask(c) == [id |-> c.task_id, args |-> c.args, files |-> c.file]

\* how much of a text lands in a file when the writing fails part-way
Cuts(txt) == {0, Len(txt) \div 2, Len(txt) - 1}

\* TaskWritten with a fault: the end of the text is still in a buffer when
\* run_qemu goes on
TaskWrittenUnflushed(txt, n) == FileOf(SubSeq(txt, 1, n - 1))

\* lines 87-90: task.json once File::create has truncated it and to_writer
\* has put the first n characters of the text into it
TaskWritten(txt, n) == FileOf(SubSeq(txt, 1, n))

\* lines 87-90: File::create, to_writer, flush, drop.  A failing create
\* leaves the file as it was; a failing write leaves the start of the text.
WriteTask ==
    /\ hpc = "run_qemu"
    /\ LET txt == EncTask(HostTask(config)) IN
       \/ /\ taskFile' = TaskWritten(txt, Len(txt))
          /\ hpc' = "spawn"
          /\ UNCHANGED hostOutcome
       \/ /\ UNCHANGED taskFile
          /\ hpc' = "panic_qemu"
          /\ hostOutcome' = ErrOutcome(IoErr(T_Io))
       \/ \E n \in Cuts(txt) :
          /\ taskFile' = TaskWritten(txt, n)
          /\ hpc' = "panic_qemu"
          /\ hostOutcome' = ErrOutcome(IoErr(T_Io))
    /\ UNCHANGED <<config, wsExists, resultFile, answer, vm, exitStatus>>
    /\ UNCHANGED guestVars
    /\ UNCHANGED pcall

\* the mount table holds a line that contains the mount point
HasMount(table) == \E k \in 1..Len(table) : Contains(table[k], WORKSPACE_PATH)

\* line 149, cmd.status(): the launcher fails to start, or the VM boots and
\* the guest's run begins (lib.rs:70-74) with elapsed = 0
Launch ==
    /\ hpc = "spawn"
    /\ \/ /\ hpc' = "panic_qemu"
          /\ hostOutcome' = ErrOutcome(IoErr(T_NotFound))
          /\ UNCHANGED <<vm, mounts, elapsed, mountedAt, gpc>>
       \/ \E t \in Tables :
          /\ hpc' = "waiting"
          /\ vm' = "running"
          /\ mounts' = t
          /\ mountedAt' = IF HasMount(t) THEN 0 ELSE -1
          /\ elapsed' = 0
          /\ gpc' = "loop"
          /\ UNCHANGED hostOutcome
    /\ UNCHANGED <<config, wsExists, taskFile, resultFile, answer, exitStatus>>
    /\ UNCHANGED <<gerr, task, cbCall, result>>
    /\ UNCHANGED pcall

\* Collect with a fault: a callback failure reported without its message
CollectNoMessage(file) ==
    IF ~file.exists THEN ErrOutcome(IoErr(T_NotFound))
    ELSE With(DecEnvelope(file.data), LAMBDA d :
         IF ~d.ok THEN ErrOutcome(SerdeErr(T_Syntax))
         ELSE IF d.val.tag = "Ok" THEN OkOutcome(d.val.val)
         ELSE ErrOutcome(StringErr(<<>>)))

\* Collect with a fault: a missing or undecodable file taken for a failure
\* the guest reported
CollectLenient(file) ==
    IF ~file.exists THEN ErrOutcome(StringErr(T_NotFound))
    ELSE With(DecEnvelope(file.data), LAMBDA d :
         IF ~d.ok THEN ErrOutcome(StringErr(T_Syntax))
         ELSE IF d.val.tag = "Ok" THEN OkOutcome(d.val.val)
         ELSE ErrOutcome(StringErr(d.val.msg)))

\* Collect with a fault: a text that does not decode gives an empty
\* TaskResult
CollectDefaulting(file) ==
    IF ~file.exists THEN ErrOutcome(IoErr(T_NotFound))
    ELSE With(DecEnvelope(file.data), LAMBDA d :
         IF ~d.ok THEN OkOutcome(NoTaskResult)
         ELSE IF d.val.tag = "Ok" THEN OkOutcome(d.val.val)
         ELSE ErrOutcome(StringErr(d.val.msg)))

\* lines 152-155: what run_qemu returns for a given task_result.json
Collect(file) ==
    IF ~file.exists THEN ErrOutcome(IoErr(T_NotFound))
    ELSE With(DecEnvelope(file.data), LAMBDA d :
         IF ~d.ok THEN ErrOutcome(SerdeErr(T_Syntax))
         ELSE IF d.val.tag = "Ok" THEN OkOutcome(d.val.val)
         ELSE ErrOutcome(StringErr(d.val.msg)))

\* CollectAfter with a fault: a non-zero exit status taken for a failure
CollectByStatus(status, file) ==
    IF status # 0 THEN ErrOutcome(IoErr(T_Io)) ELSE Collect(file)

\* lines 149-155: the exit status is printed (line 150) and plays no part in
\* what is returned
CollectAfter(status, file) == Collect(file)

\* StatusReturned with a fault: the launcher is spawned and not waited for
StatusOfSpawn(v) == v \in {"running", "exited"}

\* line 149: cmd.status() returns when the launcher's process has exited
StatusReturned(v) == v = "exited"

\* lines 149-155 once cmd.status() has returned, and main's expect (line 47)
HostCollect ==
    /\ hpc = "waiting"
    /\ StatusReturned(vm)
    /\ \E out \in {CollectAfter(exitStatus, resultFile)} :
         /\ hostOutcome' = out
         /\ hpc' = IF out.tag = "Ok" THEN "exit0" ELSE "panic_qemu"
    /\ UNCHANGED <<config, wsExists, taskFile, resultFile, answer, vm, exitStatus>>
    /\ UNCHANGED guestVars
    /\ UNCHANGED pcall

(***************************************************************************)
(* The VM and its mount table.                                             *)
(***************************************************************************)
\* the moments of the guest's wait at which the model lets the mount appear:
\* the first polls, and those around the ceiling
AppearTimes == {0, 1, MOUNT_TIMEOUT - 1, MOUNT_TIMEOUT, MOUNT_TIMEOUT + 1}

\* the workspace mount appears in the guest's /proc/mounts
MountAppears ==
    /\ vm = "running"
    /\ gpc \in {"loop", "sleep"}
    /\ elapsed \in AppearTimes
    /\ ~HasMount(mounts)
    /\ \E t \in Tables :
         /\ HasMount(t)
         /\ mounts' = t
    /\ mountedAt' = elapsed
    /\ UNCHANGED <<config, wsExists, taskFile, resultFile, hpc, answer, hostOutcome,
                   vm, exitStatus, elapsed, gpc, gerr, task, cbCall, result>>
    /\ UNCHANGED pcall

\* the VM dies under the guest (a crash, a kill)
VmKill ==
    /\ vm = "running"
    /\ gpc \notin GuestTerminal
    /\ gpc' = "killed"
    /\ UNCHANGED <<config, wsExists, taskFile, resultFile, hpc, answer, hostOutcome,
                   vm, exitStatus, mounts, elapsed, mountedAt, gerr, task, cbCall,
                   result>>
    /\ UNCHANGED pcall

\* the guest has ended and the launcher's process exits with some status
VmExit ==
    /\ vm = "running"
    /\ gpc \in GuestTerminal
    /\ vm' = "exited"
    /\ \E st \in ExitStatuses : exitStatus' = st
    /\ UNCHANGED <<config, wsExists, taskFile, resultFile, hpc, answer, hostOutcome>>
    /\ UNCHANGED guestVars
    /\ UNCHANGED pcall

(***************************************************************************)
(* Guest: mount_present (lib.rs:54-66).                                    *)
(***************************************************************************)
\* what can go wrong reading /proc/mounts: nothing (0), File::open fails
\* (-1), or reading line k fails (k)
ReadFaults(table) == (-1)..Len(table)

\* lines 58-65: the lines are read in order; a line that cannot be read
\* makes line.expect panic, a line that contains the mount point ends the scan
\* ScanLines with a fault: the line compared with ==, not with contains
RECURSIVE ScanLinesExact(_, _, _, _)
ScanLinesExact(lines, k, fault, mount_point) ==
    IF lines = <<>> THEN "false"
    ELSE IF fault = k THEN "panic"
    ELSE IF Head(lines) = mount_point THEN "true"
    ELSE ScanLinesExact(Tail(lines), k + 1, fault, mount_point)

RECURSIVE ScanLines(_, _, _, _)

ScanLines(lines, k, fault, mount_point) ==
    IF lines = <<>> THEN "false"
    ELSE IF fault = k THEN "panic"
    ELSE IF Contains(Head(lines), mount_point) THEN "true"
    ELSE ScanLines(Tail(lines), k + 1, fault, mount_point)

\* "err" is Err(io::Error) from File::open(...)?, "panic" the expect
mount_present(table, fault, mount_point) ==
    IF fault = -1 THEN "err" ELSE ScanLines(table, 1, fault, mount_point)

(***************************************************************************)
(* Guest: run (lib.rs:70-102).                                             *)
(***************************************************************************)
\* TimedOut with a fault: >= for >
TimedOutAtCeiling(e) == e >= MOUNT_TIMEOUT

\* TimedOut with a fault: the ceiling taken in milliseconds
TimedOutMillis(e) == e > MOUNT_TIMEOUT * 1000

\* line 76
TimedOut(e) == e > MOUNT_TIMEOUT

\* PollOutcome with a fault: the mount table consulted before the clock
PollOutcomeMountFirst(e, table, fault) ==
    LET m == mount_present(table, fault, WORKSPACE_PATH)
    IN IF m = "false" /\ TimedOut(e) THEN "timeout" ELSE m

\* lines 76-84: the timeout test, then mount_present(WORKSPACE_PATH)?
PollOutcome(e, table, fault) ==
    IF TimedOut(e) THEN "timeout"
    ELSE mount_present(table, fault, WORKSPACE_PATH)

\* lines 75-84: one turn of the wait loop up to the sleep
GuestPoll ==
    /\ vm = "running"
    /\ gpc = "loop"
    /\ \E fault \in ReadFaults(mounts) :
         LET r == PollOutcome(elapsed, mounts, fault)
         IN /\ gpc' = CASE r = "timeout" -> "panicked"
                        [] r = "panic" -> "panicked"
                        [] r = "err" -> "failed"
                        [] r = "true" -> "load"
                        [] OTHER -> "sleep"
            /\ gerr' = CASE r = "timeout" -> "mount_timeout"
                         [] r = "panic" -> "read_mounts"
                         [] r = "err" -> "open_mounts"
                         [] OTHER -> gerr
    /\ UNCHANGED <<config, wsExists, taskFile, resultFile, hpc, answer, hostOutcome,
                   vm, exitStatus, mounts, elapsed, mountedAt, task, cbCall, result>>
    /\ UNCHANGED pcall

\* line 85: sleep(1 s), then the loop's next turn
GuestSleep ==
    /\ vm = "running"
    /\ gpc = "sleep"
    /\ elapsed' = elapsed + POLL_INTERVAL
    /\ gpc' = "loop"
    /\ UNCHANGED <<config, wsExists, taskFile, resultFile, hpc, answer, hostOutcome,
                   vm, exitStatus, mounts, mountedAt, gerr, task, cbCall, result>>
    /\ UNCHANGED pcall

\* LoadTask with a fault: a text that does not decode gives an empty Task
LoadTaskDefaulting(file) ==
    IF ~file.exists THEN [ok |-> FALSE, val |-> NoTask, why |-> "open_task"]
    ELSE With(DecTask(file.data), LAMBDA d :
         IF d.ok THEN [ok |-> TRUE, val |-> d.val, why |-> "none"]
         ELSE [ok |-> TRUE, val |-> NoTask, why |-> "none"])

\* lines 88-89: File::open(task.json)? and serde_json::from_reader(file)?
LoadTask(file) ==
    IF ~file.exists THEN [ok |-> FALSE, val |-> NoTask, why |-> "open_task"]
    ELSE With(DecTask(file.data), LAMBDA d :
         IF d.ok THEN [ok |-> TRUE, val |-> d.val, why |-> "none"]
         ELSE [ok |-> FALSE, val |-> NoTask, why |-> "decode_task"])

GuestLoad ==
    /\ vm = "running"
    /\ gpc = "load"
    /\ \E l \in {LoadTask(taskFile)} :
         /\ gpc' = IF l.ok THEN "callback" ELSE "failed"
         /\ gerr' = IF l.ok THEN gerr ELSE l.why
         /\ task' = l.val
    /\ UNCHANGED <<config, wsExists, taskFile, resultFile, hpc, answer, hostOutcome,
                   vm, exitStatus, mounts, elapsed, mountedAt, cbCall, result>>
    /\ UNCHANGED pcall

NoCall == [made |-> FALSE, self |-> NoTask, data |-> <<>>, files |-> <<>>]

\* TaskResultOf with a fault: the id left empty
TaskResultNoId(t, data, files) == [id |-> <<>>, data |-> data, files |-> files]

\* Task::result (lines 35-41)
TaskResultOf(t, data, files) == [id |-> t.id, data |-> data, files |-> files]

\* line 91: callback(task).map_err(|e| e.to_string()).  The callback returns
\* an error with some message, or a TaskResult it built with Task::result
\* from the Task it was given or from another Task.
GuestCallback ==
    /\ vm = "running"
    /\ gpc = "callback"
    /\ \/ \E m \in Messages :
            /\ result' = ErrEnv(m)
            /\ cbCall' = NoCall
       \/ \E src \in {task, OtherTask}, data \in Datas, files \in ResultFiles :
            /\ result' = OkEnv(TaskResultOf(src, data, files))
            /\ cbCall' = [made |-> TRUE, self |-> src, data |-> data, files |-> files]
    /\ gpc' = "create"
    /\ UNCHANGED <<config, wsExists, taskFile, resultFile, hpc, answer, hostOutcome,
                   vm, exitStatus, mounts, elapsed, mountedAt, gerr, task>>
    /\ UNCHANGED pcall

\* OpenCreateNew with a fault: create(true).truncate(true), not create_new
OpenCreateTruncate(file, ioOk) ==
    IF ~ioOk THEN [ok |-> FALSE, file |-> file, why |-> "create_io"]
    ELSE [ok |-> TRUE, file |-> FileOf(<<>>), why |-> "none"]

\* OpenCreateNew with a fault: create(true), which opens an existing file
\* as it is
OpenCreateExisting(file, ioOk) ==
    IF ~ioOk THEN [ok |-> FALSE, file |-> file, why |-> "create_io"]
    ELSE IF file.exists THEN [ok |-> TRUE, file |-> file, why |-> "none"]
    ELSE [ok |-> TRUE, file |-> FileOf(<<>>), why |-> "none"]

\* lines 92-96: File::options().read(true).write(true).create_new(true).open
OpenCreateNew(file, ioOk) ==
    IF file.exists THEN [ok |-> FALSE, file |-> file, why |-> "create_exists"]
    ELSE IF ~ioOk THEN [ok |-> FALSE, file |-> file, why |-> "create_io"]
    ELSE [ok |-> TRUE, file |-> FileOf(<<>>), why |-> "none"]

GuestCreate ==
    /\ vm = "running"
    /\ gpc = "create"
    /\ \E ioOk \in BOOLEAN :
         LET o == OpenCreateNew(resultFile, ioOk) IN
         /\ resultFile' = o.file
         /\ gpc' = IF o.ok THEN "write" ELSE "failed"
         /\ gerr' = IF o.ok THEN gerr ELSE o.why
    /\ UNCHANGED <<config, wsExists, taskFile, hpc, answer, hostOutcome, vm, exitStatus,
                   mounts, elapsed, mountedAt, task, cbCall, result>>
    /\ UNCHANGED pcall

\* Written with a fault: the text serialized into the file twice
WrittenTwice(txt, n) == FileOf(SubSeq(txt, 1, n) \o SubSeq(txt, 1, n))

\* line 97: the new, empty file once to_writer has put the first n
\* characters of the text into it
Written(txt, n) == FileOf(SubSeq(txt, 1, n))

\* line 97: serde_json::to_writer(&mut result_file, &result)?.  The file is
\* written as the text is produced, so a failure leaves the start of it.
GuestWrite ==
    /\ vm = "running"
    /\ gpc = "write"
    /\ LET txt == EncEnvelope(result) IN
       \/ /\ resultFile' = Written(txt, Len(txt))
          /\ gpc' = "flush"
          /\ UNCHANGED gerr
       \/ \E n \in Cuts(txt) :
          /\ resultFile' = Written(txt, n)
          /\ gpc' = "failed"
          /\ gerr' = "write_io"
    /\ UNCHANGED <<config, wsExists, taskFile, hpc, answer, hostOutcome, vm, exitStatus,
                   mounts, elapsed, mountedAt, task, cbCall, result>>
    /\ UNCHANGED pcall

\* lines 98-101: flush (File::flush does nothing and returns Ok), drop, Ok(())
GuestFlush ==
    /\ vm = "running"
    /\ gpc = "flush"
    /\ gpc' = "done"
    /\ UNCHANGED <<config, wsExists, taskFile, resultFile, hpc, answer, hostOutcome,
                   vm, exitStatus, mounts, elapsed, mountedAt, gerr, task, cbCall,
                   result>>
    /\ UNCHANGED pcall

(***************************************************************************)
(* Task::get_task_files_path (lib.rs:43-51).                               *)
(***************************************************************************)
SEP == "/"

\* Path::is_absolute on the guest's Linux: the path starts at the root
IsAbsolute(p) == p # <<>> /\ Head(p) = SEP

\* line 47, Path::new(workspace).join(name): PathBuf::push puts an absolute
\* name in the place of the base, and appends any other name to it, after a
\* separator when the base does not end in one
PathJoin(base, name) ==
    IF IsAbsolute(name) THEN name
    ELSE IF base # <<>> /\ base[Len(base)] # SEP THEN base \o <<SEP>> \o name
    ELSE base \o name

\* lines 43-51: one pair (name, path) per element of self.files, in order
get_task_files_path(self, workspace) ==
    [i \in 1..Len(self.files) |->
        [name |-> self.files[i], path |-> PathJoin(workspace, self.files[i])]]

\* the workspace roots and the file names the calls are made with
Workspaces == { WORKSPACE_PATH, <<SEP, "w", SEP>>, <<"w">> }
FileNames ==
    { <<"a">>, <<"s", SEP, "a">>, <<".", ".", SEP, "e">>, <<SEP, "e">>, <<>> }
PathTasks ==
    { [id |-> <<"t">>, args |-> <<>>, files |-> fs] :
        fs \in SeqsUpTo(FileNames, MaxFiles) }

NoPathCall == [made |-> FALSE, self |-> NoTask, workspace |-> <<>>, out |-> <<>>]

\* the call returns
ResolvePaths ==
    /\ ~pcall.made
    /\ pcall.workspace # <<>>
    /\ pcall' = [pcall EXCEPT !.made = TRUE,
                              !.out = get_task_files_path(pcall.self,
                                                          pcall.workspace)]
    /\ UNCHANGED <<config, wsExists, taskFile, resultFile, hpc, answer, hostOutcome,
                   vm, exitStatus>>
    /\ UNCHANGED guestVars

(***************************************************************************)
(* Specifications.                                                         *)
(***************************************************************************)
GuestIdle ==
    /\ mounts = <<ProcLine>>
    /\ elapsed = 0
    /\ mountedAt = -1
    /\ gerr = "none"
    /\ task = NoTask
    /\ cbCall = NoCall
    /\ result = NoEnv

\* The host is started on some command line, in front of a workspace that
\* may be missing and may hold the files of an earlier run.
Init ==
    /\ config \in Configs
    /\ wsExists \in BOOLEAN
    /\ taskFile \in (IF wsExists THEN {NoFile, StaleTask} ELSE {NoFile})
    /\ resultFile \in (IF wsExists THEN {NoFile, StaleResult} ELSE {NoFile})
    /\ hpc = "pre_check"
    /\ answer = <<>>
    /\ hostOutcome = NoOutcome
    /\ vm = "none"
    /\ exitStatus = NoStatus
    /\ gpc = "off"
    /\ GuestIdle
    /\ pcall = NoPathCall

GuestStep ==
    \/ GuestPoll
    \/ GuestSleep
    \/ GuestLoad
    \/ GuestCallback
    \/ GuestCreate
    \/ GuestWrite
    \/ GuestFlush

Next ==
    \/ PreCheckAsk
    \/ PreCheckDecide
    \/ WriteTask
    \/ Launch
    \/ HostCollect
    \/ MountAppears
    \/ VmKill
    \/ VmExit
    \/ GuestStep

Spec == Init /\ [][Next]_vars

\* The guest's run wherever a VM starts it: the host orchestrator is not
\* part of the run, and the workspace holds whatever was put there.
GuestTaskFiles ==
    {NoFile, FileOf(<<>>)}
    \cup {FileOf(EncTask(HostTask(c))) : c \in Configs}
    \cup {FileOf(SubSeq(EncTask(HostTask(c)), 1, Len(EncTask(HostTask(c))) - 1)) :
            c \in Configs}

GuestInit ==
    /\ config = NoConfig
    /\ wsExists = TRUE
    /\ taskFile \in GuestTaskFiles
    /\ resultFile \in {NoFile, StaleResult}
    /\ hpc = "absent"
    /\ answer = <<>>
    /\ hostOutcome = NoOutcome
    /\ vm = "running"
    /\ exitStatus = NoStatus
    /\ mounts \in Tables
    /\ elapsed = 0
    /\ mountedAt = (IF HasMount(mounts) THEN 0 ELSE -1)
    /\ gpc = "loop"
    /\ gerr = "none"
    /\ task = NoTask
    /\ cbCall = NoCall
    /\ result = NoEnv
    /\ pcall = NoPathCall

GuestNext ==
    \/ MountAppears
    \/ VmKill
    \/ VmExit
    \/ GuestStep

GuestSpec == GuestInit /\ [][GuestNext]_vars

\* A callback's call of get_task_files_path, on any Task and workspace root.
PathInit ==
    /\ config = NoConfig
    /\ wsExists = TRUE
    /\ taskFile = NoFile
    /\ resultFile = NoFile
    /\ hpc = "absent"
    /\ answer = <<>>
    /\ hostOutcome = NoOutcome
    /\ vm = "running"
    /\ exitStatus = NoStatus
    /\ gpc = "callback"
    /\ GuestIdle
    /\ \E t \in PathTasks, w \in Workspaces :
         pcall = [made |-> FALSE, self |-> t, workspace |-> w, out |-> <<>>]

PathNext == ResolvePaths

PathSpec == PathInit /\ [][PathNext]_vars

\* The guest's process runs while its VM does, the VM's exit is reported, and
\* the host's process runs: each takes its next step when it has one.  (Each
\* process is sequential, so at most one of its steps is enabled at a time.)

FairSpec ==
    /\ Spec
    /\ WF_vars(GuestPoll) /\ WF_vars(GuestSleep) /\ WF_vars(GuestLoad)
    /\ WF_vars(GuestCallback) /\ WF_vars(GuestCreate) /\ WF_vars(GuestWrite)
    /\ WF_vars(GuestFlush)
    /\ WF_vars(VmExit)
    /\ WF_vars(PreCheckAsk) /\ WF_vars(PreCheckDecide) /\ WF_vars(WriteTask)
    /\ WF_vars(Launch) /\ WF_vars(HostCollect)

(***************************************************************************)
(* Claims.                                                                 *)
(***************************************************************************)
GuestAdvanced == gpc \in {"load", "callback", "create", "write", "flush", "done"}
MountReadErrors == {"open_mounts", "read_mounts"}
PersistErrors == {"create_exists", "create_io", "write_io"}
RunQemuReturned == hpc \in {"exit0", "panic_qemu"}

\* C1 (GuestSpec).  Exclusivity: a step the guest takes at its persist step
\* while task_result.json already exists makes run return the error of the
\* exclusive create, and no step taken there changes the existing file.
C1_Exclusivity ==
    [][ (gpc = "create" /\ resultFile.exists)
          => /\ resultFile' = resultFile
             /\ gpc' \in {"create", "killed", "failed"}
             /\ (gpc' = "failed" => gerr' = "create_exists") ]_vars

C1_Witness ==
    /\ gpc = "failed"
    /\ gerr = "create_exists"
    /\ result.tag = "Ok"
    /\ resultFile = StaleResult

\* C2.  Callback failure propagation: when the callback returned an error
\* with message m, run fails only if persisting fails; once run has written
\* the file, the file decodes to failure(m); once run has returned Ok and
\* the host has collected, run_qemu's error is the String m.
C2_CallbackFailurePropagation ==
    result.tag = "Err" =>
        /\ (gpc = "failed" => gerr \in PersistErrors)
        /\ gpc # "panicked"
        /\ (gpc \in {"flush", "done"} =>
                /\ resultFile.exists
                /\ DecEnvelope(resultFile.data).ok
                /\ DecEnvelope(resultFile.data).val = ErrEnv(result.msg))
        /\ (gpc = "done" /\ RunQemuReturned =>
                /\ hpc = "panic_qemu"
                /\ hostOutcome = ErrOutcome(StringErr(result.msg)))

C2_Witness ==
    /\ result = ErrEnv(<<"b", "o", "o", "m">>)
    /\ gpc = "done"
    /\ hostOutcome = ErrOutcome(StringErr(<<"b", "o", "o", "m">>))

\* C3.  End-to-end handoff: the Task the callback is given has the id, args
\* and files of the host's parameters; when the callback returned a
\* TaskResult r and run returned Ok, run_qemu returns r; and run_qemu never
\* returns a TaskResult other than the one the callback returned.
C3_EndToEndHandoff ==
    /\ (gpc \in {"callback", "create", "write", "flush", "done"} =>
            /\ task.id = config.task_id
            /\ task.args = config.args
            /\ task.files = config.file)
    /\ (result.tag = "Ok" /\ gpc = "done" /\ RunQemuReturned =>
            /\ hpc = "exit0"
            /\ hostOutcome = OkOutcome(result.val))
    /\ (hostOutcome.tag = "Ok" =>
            /\ result.tag = "Ok"
            /\ hostOutcome.val = result.val)

C3_Witness ==
    /\ hpc = "exit0"
    /\ config.task_id = <<"t", "a", "s", "k", "0", "1">>
    /\ task.args = << <<"-", "-", "x">> >>
    /\ hostOutcome.val = [id |-> config.task_id, data |-> <<1, 2, 3>>, files |-> <<>>]

\* C4 (FairSpec).  Mount-wait timeout: the wait loop gives up with the mount
\* timeout only at a poll whose elapsed wait exceeds the ceiling; when the
\* mount table never held the mount point, a guest that left the loop (and
\* was not killed, and could read the table) left it by the timeout; and the
\* wait loop always ends.
C4_MountWaitTimeout ==
    /\ [](gerr = "mount_timeout" => gpc = "panicked" /\ elapsed > MOUNT_TIMEOUT)
    /\ [](mountedAt = -1 /\ gpc \notin {"off", "loop", "sleep", "killed"}
            => gpc \in {"panicked", "failed"}
               /\ gerr \in {"mount_timeout"} \cup MountReadErrors)
    /\ (gpc \in {"loop", "sleep"} ~> gpc \notin {"loop", "sleep"})

C4_Witness ==
    /\ gerr = "mount_timeout"
    /\ mountedAt = -1
    /\ elapsed = MOUNT_TIMEOUT + POLL_INTERVAL

\* C5 as stated.  Mount-wait success: at every poll at which the mount
\* table holds the mount point, the wait loop reports success and goes on to
\* load task.json (unless the table cannot be read), and it does so within
\* one polling interval of the moment the mount appeared.
C5_AsStated ==
    /\ [][ (gpc = "loop" /\ HasMount(mounts) /\ gpc' \notin {"loop", "killed"})
             => (gpc' = "load" \/ gerr' \in MountReadErrors) ]_vars
    /\ [](GuestAdvanced => mountedAt >= 0 /\ elapsed - mountedAt <= POLL_INTERVAL)

\* C5, amended.  The same, for the polls whose elapsed wait is at most the
\* ceiling: at a later poll the loop gives up without reading the table.
C5_MountWaitSuccess ==
    /\ [][ (gpc = "loop" /\ HasMount(mounts) /\ elapsed <= MOUNT_TIMEOUT
              /\ gpc' \notin {"loop", "killed"})
             => (gpc' = "load" \/ gerr' \in MountReadErrors) ]_vars
    /\ [](GuestAdvanced => /\ mountedAt >= 0
                           /\ elapsed - mountedAt <= POLL_INTERVAL
                           /\ elapsed <= MOUNT_TIMEOUT)

C5_Witness ==
    /\ gpc = "load"
    /\ mountedAt = MOUNT_TIMEOUT - POLL_INTERVAL
    /\ elapsed = MOUNT_TIMEOUT

\* C6.  The result file alone decides the host's outcome: once the launcher
\* has reported an exit status and run_qemu has returned, what it returned
\* is a function of task_result.json, whatever the status; a decodable
\* success envelope gives the TaskResult, a missing file gives a failure.
C6_ResultFileDecides ==
    (RunQemuReturned /\ exitStatus # NoStatus) =>
        /\ hostOutcome = Collect(resultFile)
        /\ (resultFile.exists /\ DecEnvelope(resultFile.data).ok
              /\ DecEnvelope(resultFile.data).val.tag = "Ok"
              => hostOutcome = OkOutcome(DecEnvelope(resultFile.data).val.val))
        /\ (~resultFile.exists => hostOutcome.tag = "Err")

C6_Witness ==
    /\ exitStatus = 1
    /\ gpc = "done"
    /\ hpc = "exit0"
    /\ hostOutcome.tag = "Ok"

\* C7.  Missing or undecodable result: when run_qemu has returned and
\* task_result.json is missing or does not decode, the host has failed with
\* an io or a serde_json error, never with a callback's message and never
\* with a TaskResult.
C7_MissingResultDistinct ==
    (RunQemuReturned /\ (~resultFile.exists \/ ~DecEnvelope(resultFile.data).ok)) =>
        /\ hpc = "panic_qemu"
        /\ hostOutcome.tag = "Err"
        /\ hostOutcome.err.class \in {"io", "serde"}

C7_Witness ==
    /\ gpc = "killed"
    /\ resultFile = FileOf(<<>>)
    /\ hpc = "panic_qemu"
    /\ hostOutcome.err.class = "serde"

\* what the operator types to confirm: yes, and the end of the line
OperatorConfirmed(raw) ==
    raw \in { <<"y", "e", "s", "\n">>, <<"y", "e", "s", "\r", "\n">>, <<"y", "e", "s">> }

\* C8.  Preflight gate: with no workspace directory, or with a stale
\* task_result.json and an answer other than the confirmation (or no answer),
\* the host ends in pre_check; an aborted host takes no further step; and none
\* of these steps touches task.json, task_result.json or the VM.
C8_PreflightGate ==
    [][ /\ (hpc = "pre_check" /\ (~wsExists \/ resultFile.exists)
              => /\ hpc' \in {"pre_check", "answered", "exit1", "panic_preflight"}
                 /\ (~wsExists => hpc' \in {"pre_check", "exit1"})
                 /\ UNCHANGED <<taskFile, resultFile, vm>>)
        /\ (hpc = "answered" /\ ~OperatorConfirmed(answer)
              => /\ hpc' \in {"answered", "exit1", "panic_preflight"}
                 /\ UNCHANGED <<taskFile, resultFile, vm>>)
        /\ (hpc \in {"exit1", "panic_preflight"}
              => UNCHANGED <<hpc, taskFile, resultFile, vm>>) ]_vars

C8_Witness ==
    /\ hpc = "exit1"
    /\ answer = <<"y", "e", "s", " ", "\n">>
    /\ resultFile = StaleResult
    /\ vm = "none"

\* C9 as stated.  Whenever the guest stopped because /proc/mounts could not
\* be read, the poller had returned an I/O error and run returned it.
C9_ReadFailureReturnsError ==
    gerr \in MountReadErrors => gpc = "failed"

\* C10.  Task::result copies the id: the TaskResult the callback built with
\* Task::result(data, files) has the id of the Task it was called on and the
\* data and files given; when that Task is the one the callback received,
\* the TaskResult the host returns has the id of the host's parameters.
C10_ResultIdFromTask ==
    /\ (cbCall.made =>
            result = OkEnv([id |-> cbCall.self.id, data |-> cbCall.data,
                            files |-> cbCall.files]))
    /\ (hostOutcome.tag = "Ok" /\ cbCall.made /\ cbCall.self = task
            => hostOutcome.val.id = config.task_id)

C10_Witness ==
    /\ hpc = "exit0"
    /\ cbCall.made
    /\ cbCall.self = task
    /\ hostOutcome.val.id = <<"a", QUOTE>>
    /\ hostOutcome.val.data = <<U8_MAX>>


\* Path::components: whether the path starts at the root, and its names;
\* empty names (doubled or trailing separators) are dropped, .. is kept
RECURSIVE Segments(_, _)
Segments(p, cur) ==
    IF p = <<>> THEN <<cur>>
    ELSE IF Head(p) = SEP THEN <<cur>> \o Segments(Tail(p), <<>>)
    ELSE Segments(Tail(p), Append(cur, Head(p)))

Components(p) ==
    [root |-> IsAbsolute(p),
     names |-> SelectSeq(Segments(p, <<>>), LAMBDA c : c # <<>>)]

\* Path::starts_with: path lies under base, component by component
LiesUnder(path, base) ==
    LET a == Components(path)
        b == Components(base)
    IN /\ a.root = b.root
       /\ Len(b.names) <= Len(a.names)
       /\ SubSeq(a.names, 1, Len(b.names)) = b.names

\* C11 (PathSpec).  Path resolution: get_task_files_path(w) returns as many
\* pairs as the Task has files, in their order, the i-th pair being files[i]
\* and w joined with files[i], and every resolved path lies under w.
C11_PathResolution ==
    pcall.made =>
        LET files == pcall.self.files
            w == pcall.workspace
        IN /\ Len(pcall.out) = Len(files)
           /\ \A i \in 1..Len(files) :
                /\ pcall.out[i].name = files[i]
                /\ pcall.out[i].path = PathJoin(w, files[i])
                /\ LiesUnder(pcall.out[i].path, w)


\* the stages of run after the callback has been invoked
AfterCallback == {"create", "write", "flush", "done"}
LoadErrors == {"open_task", "decode_task"}

\* C12 (GuestSpec).  Guest stage ordering: the callback is invoked at most
\* once, and only once the mount has been seen and task.json has been opened
\* and decoded in full; task_result.json is created only after the callback
\* has returned; a mount timeout, or a task.json that is missing or does not
\* decode, ends the guest in failure, the callback never invoked and no
\* task_result.json created.
C12_GuestStageOrdering ==
    /\ [](gpc = "callback" \/ result # NoEnv =>
            /\ HasMount(mounts)
            /\ taskFile.exists
            /\ DecTask(taskFile.data).ok
            /\ task = DecTask(taskFile.data).val)
    /\ [][/\ (gpc' = "callback" => gpc \in {"load", "callback"})
          /\ (result # NoEnv => result' = result /\ cbCall' = cbCall)
          /\ (result' # result => gpc = "callback" /\ gpc' = "create")
          /\ (gpc \in AfterCallback \cup GuestTerminal => gpc' # "callback")
         ]_vars
    /\ [][resultFile' # resultFile =>
            result # NoEnv /\ gpc \in {"create", "write"}]_vars
    /\ [](gerr \in {"mount_timeout"} \cup LoadErrors =>
            /\ gpc \in {"failed", "panicked"}
            /\ result = NoEnv
            /\ ~cbCall.made
            /\ resultFile \in {NoFile, StaleResult})
    /\ [][(gpc = "load" /\ gpc' # gpc
            /\ ~(taskFile.exists /\ DecTask(taskFile.data).ok))
           => gpc' \in {"failed", "killed"}]_vars
    /\ [][(gpc \in GuestTerminal) => gpc' = gpc]_vars

C12_Witness ==
    /\ gpc = "failed"
    /\ gerr = "decode_task"
    /\ taskFile.exists
    /\ taskFile.data # <<>>
    /\ HasMount(mounts)
    /\ result = NoEnv
    /\ resultFile = NoFile


\* C13 (Spec).  Cross-process ordering: the host has written and closed
\* task.json before the VM is launched, the guest runs (reads task.json,
\* writes task_result.json) only while the VM does, and the host reads
\* task_result.json only after the VM has exited, the guest at its end: the
\* host never reads the result file of a guest that is still running, so a
\* guest that finished its write is never reported as having left no result.
C13_CrossProcessOrdering ==
    /\ [](vm # "none" => taskFile = FileOf(EncTask(HostTask(config))))
    /\ [](gpc # "off" => vm # "none")
    /\ [](vm = "running" => hpc = "waiting")
    /\ [](RunQemuReturned /\ vm # "none" =>
            vm = "exited" /\ gpc \in GuestTerminal)
    /\ [](RunQemuReturned /\ gpc = "done" =>
            hostOutcome.err.class \in {"none", "string"})
    /\ [][(hpc = "waiting" /\ hpc' # hpc) =>
            /\ vm = "exited"
            /\ gpc \in GuestTerminal
            /\ resultFile' = resultFile]_vars
    /\ [][(gpc' # gpc \/ resultFile' # resultFile) /\ vm # "none" =>
            vm = "running" /\ hpc = "waiting" /\ hpc' = "waiting"]_vars
    /\ [][vm = "exited" => resultFile' = resultFile /\ taskFile' = taskFile]_vars

C13_Witness ==
    /\ hpc = "panic_qemu"
    /\ vm = "exited"
    /\ gpc = "done"
    /\ result.tag = "Err"
    /\ resultFile = FileOf(EncEnvelope(result))
    /\ hostOutcome = ErrOutcome(StringErr(result.msg))


\* main has got past pre_check
PreflightPassed == hpc \in {"run_qemu", "spawn", "waiting", "exit0", "panic_qemu"}

IsPrefix(a, b) == Len(a) <= Len(b) /\ SubSeq(b, 1, Len(a)) = a

\* C14 (Spec).  Write-once result: once pre_check has passed,
\* task_result.json is changed by the guest only: created, empty, at the
\* persist step when it did not exist, then filled once with the envelope's
\* text (or the start of it, when the write fails); neither step is taken a
\* second time, a guest that wrote the envelope left exactly its text in the
\* file, and no step of the guest or of the host changes the file afterwards.
C14_WriteOnceResult ==
    /\ [][(PreflightPassed /\ resultFile' # resultFile) =>
            \/ /\ gpc = "create" /\ gpc' = "write"
               /\ ~resultFile.exists
               /\ resultFile' = FileOf(<<>>)
            \/ /\ gpc = "write" /\ gpc' \in {"flush", "failed"}
               /\ resultFile = FileOf(<<>>)
               /\ resultFile'.exists
               /\ IsPrefix(resultFile'.data, EncEnvelope(result))]_vars
    /\ [][/\ (gpc \in {"write", "flush"} \cup GuestTerminal => gpc' # "create")
          /\ (gpc \in {"flush"} \cup GuestTerminal => gpc' # "write")]_vars
    /\ [](gpc \in {"flush", "done"} => resultFile = FileOf(EncEnvelope(result)))
    /\ [][(gpc \in {"flush"} \cup GuestTerminal) => resultFile' = resultFile]_vars
    /\ [][(PreflightPassed /\ hpc' # hpc) => resultFile' = resultFile]_vars

C14_Witness ==
    /\ hpc = "exit0"
    /\ gpc = "done"
    /\ result.tag = "Ok"
    /\ result.val.files # <<>>
    /\ resultFile = FileOf(EncEnvelope(result))


\* C15 (Spec).  task.json is immutable for the VM's lifetime: the host
\* changes task.json in one step only, the write of run_qemu, taken once and
\* before the VM is launched; from the launch on the file holds the whole
\* text of the host's Task and no step of the host or of the guest changes it.
C15_TaskFileImmutable ==
    /\ [][(taskFile' # taskFile) =>
            /\ hpc = "run_qemu" /\ hpc' \in {"spawn", "panic_qemu"}
            /\ vm = "none" /\ gpc = "off"]_vars
    /\ [][(hpc \in {"spawn", "waiting", "exit0", "panic_qemu"}) =>
            hpc' # "run_qemu"]_vars
    /\ [](hpc \in {"spawn", "waiting"} \/ vm # "none" =>
            taskFile = FileOf(EncTask(HostTask(config))))
    /\ [][(vm # "none" \/ vm' # "none") => taskFile' = taskFile]_vars
    /\ [][(gpc' # gpc) => taskFile' = taskFile]_vars

C15_Witness ==
    /\ vm = "exited"
    /\ gpc = "done"
    /\ task.files # <<>>
    /\ taskFile = FileOf(EncTask(task))


StageRank(pc) ==
    CASE pc = "off" -> 0
      [] pc \in {"loop", "sleep"} -> 1
      [] pc = "load" -> 2
      [] pc = "callback" -> 3
      [] pc = "create" -> 4
      [] pc = "write" -> 5
      [] pc = "flush" -> 6
      [] OTHER -> 7

\* C17 (FairSpec).  Guest termination: a guest whose steps all return
\* reaches an end (result persisted, failed, or its VM killed); the wait
\* loop polls at elapsed 0, 1, ... and never beyond the poll that follows
\* the ceiling, each new poll one interval later than the last; and no stage
\* but the poll is entered a second time.
C17_GuestTermination ==
    /\ (vm = "running") ~> (gpc \in GuestTerminal)
    /\ [](elapsed <= MOUNT_TIMEOUT + POLL_INTERVAL)
    /\ [][(gpc = "sleep" /\ gpc' = "loop") =>
            elapsed' = elapsed + POLL_INTERVAL]_vars
    /\ [][/\ StageRank(gpc') >= StageRank(gpc)
          /\ (gpc' # gpc /\ gpc \notin {"loop", "sleep"} =>
                StageRank(gpc') > StageRank(gpc))
          /\ ((gpc \in GuestTerminal) => gpc' = gpc)]_vars

C17_Witness ==
    /\ gpc = "done"
    /\ vm = "running"
    /\ mountedAt = MOUNT_TIMEOUT
    /\ elapsed = MOUNT_TIMEOUT


\* C18 (Spec).  No stale result is reported: while run_qemu writes task.json
\* and when it launches the VM there is no task_result.json; so a result
\* file that run_qemu read holds text the guest of this run wrote, and what
\* run_qemu returns from it is what this run's callback returned.
C18_NoStaleResult ==
    /\ [](hpc \in {"run_qemu", "spawn"} => ~resultFile.exists)
    /\ [][(vm = "none" /\ vm' = "running") =>
            ~resultFile.exists /\ ~resultFile'.exists]_vars
    /\ [](RunQemuReturned /\ resultFile.exists =>
            /\ result # NoEnv
            /\ IsPrefix(resultFile.data, EncEnvelope(result)))
    /\ [](RunQemuReturned /\ hostOutcome.tag = "Ok" =>
            result = OkEnv(hostOutcome.val))
    /\ [](RunQemuReturned /\ hostOutcome.err.class = "string" =>
            result = ErrEnv(hostOutcome.err.msg))

C18_Witness ==
    /\ RunQemuReturned
    /\ vm = "exited"
    /\ resultFile.exists
    /\ resultFile # StaleResult
    /\ resultFile = FileOf(EncEnvelope(result))
    /\ hostOutcome.err.class = "string"
    /\ hostOutcome.err.msg = <<QUOTE>>


\* C19 (GuestSpec).  The guest looks for an existing task_result.json at its
\* persist step only: with the file there from the start, the guest loads
\* task.json and calls the callback with the loaded Task as it would without
\* the file, and only then fails, on the exclusive create; the file stays as
\* it was, so what the callback returned is recorded nowhere.
C19_ExistingResultFoundAtPersist ==
    /\ [][(resultFile = StaleResult) => resultFile' = StaleResult]_vars
    /\ [][(gerr' = "create_exists" /\ gerr # "create_exists") =>
            gpc = "create" /\ result # NoEnv]_vars
    /\ [](gerr = "create_exists" =>
            /\ gpc = "failed"
            /\ result # NoEnv
            /\ task = DecTask(taskFile.data).val
            /\ resultFile = StaleResult
            /\ DecEnvelope(resultFile.data).val # result)
    /\ [][(resultFile.exists /\ gpc' # gpc /\ gpc' # "killed") =>
            /\ (gpc = "load" /\ taskFile.exists /\ DecTask(taskFile.data).ok
                  => gpc' = "callback" /\ task' = DecTask(taskFile.data).val)
            /\ (gpc = "callback" => gpc' = "create" /\ result' # NoEnv)
            /\ (gpc = "create" => gpc' = "failed" /\ gerr' = "create_exists")
         ]_vars

C19_Witness ==
    /\ gpc = "failed"
    /\ gerr = "create_exists"
    /\ result.tag = "Err"
    /\ task.files # <<>>
    /\ resultFile = StaleResult


\* C20 (Spec).  The timeout test comes before the mount test: a poll with
\* elapsed > 30 ends in the mount timeout whatever the mount table holds and
\* whether or not it can be read; the guest goes on to load task.json only
\* from a poll with elapsed <= 30 (and the mount present), and a failure to
\* read the mount table only happens at such a poll.
C20_TimeoutTestFirst ==
    /\ [][(gpc = "loop" /\ elapsed > MOUNT_TIMEOUT
             /\ gpc' # gpc /\ gpc' # "killed") =>
            gpc' = "panicked" /\ gerr' = "mount_timeout"]_vars
    /\ [][(gpc' = "load" /\ gpc # "load") =>
            /\ gpc = "loop"
            /\ elapsed <= MOUNT_TIMEOUT
            /\ HasMount(mounts)]_vars
    /\ [](gerr \in MountReadErrors => elapsed <= MOUNT_TIMEOUT)

C20_Witness ==
    /\ gpc = "panicked"
    /\ gerr = "mount_timeout"
    /\ HasMount(mounts)
    /\ mountedAt = MOUNT_TIMEOUT + POLL_INTERVAL
    /\ elapsed = MOUNT_TIMEOUT + POLL_INTERVAL

====
